---- MODULE Spec2Model ----
(***************************************************************************)
(* Model of the task manager in src/src/main.rs: the TasksManager          *)
(* repository (add / find / edit / remove / print), its JSON persistence   *)
(* (store_to_file / read_from_file) and the ConsoleManager command loop.   *)
(*                                                                         *)
(* A file is a sequence of JSON tokens, every token a sequence of strings. *)
(* A write that fails part-way leaves a proper prefix of the tokens.       *)
(***************************************************************************)
EXTENDS Naturals, Sequences, FiniteSets

VARIABLES
    tasks,      \* TasksManager.tasks : Vec<Task>
    files,      \* the file system: path -> [exists, data]
    status,     \* "running" while main's loop runs, "panicked" once it unwound
    out,        \* the lines the last command printed
    last,       \* the last command and the inputs it read
    added,      \* history: the tasks handed to add_task, in call order
    onlyAdds,   \* history: nothing but add / print has run so far
    saved       \* history: path -> the task sequence a successful store wrote

vars == <<tasks, files, status, out, last, added, onlyAdds, saved>>

\* Largest number of tasks the model lets add_task grow the repository to.
MaxTasks == 3

\* Largest repository the model lets the user store to a file.
MaxStored == 2

----------------------------------------------------------------------------
(* Priority and Task *)

Priority == {"Priority::Low", "Priority::Medium", "Priority::High"}

\* Priority::to_string
to_string(p) ==
    CASE p = "Priority::Low" -> "Low"
      [] p = "Priority::Medium" -> "Medium"
      [] p = "Priority::High" -> "High"

\* Task::new
new(name, description, priority, add_time) ==
    [name |-> name, description |-> description,
     priority |-> priority, add_time |-> add_time]

\* DateTime::format("%d-%m-%Y %H:%M:%S"): whole seconds, the fraction is dropped
format(add_time) == add_time.sec

\* Task::print_task: the two printed lines of one task
print_task(t) ==
    << <<">", t.name, "|", to_string(t.priority), "|", format(t.add_time)>>,
       <<"/", t.description, "/">> >>

\* What the user types at the three prompts of new_from_console, and the
\* reading of Local::now() taken afterwards (two of them fall within the same
\* second).
ConsoleInputs ==
    { [name |-> "a", description |-> "d1", priority |-> "low",
       now |-> [sec |-> "05-11-2026 10:00:00", frac |-> "000000001"]],
      [name |-> "a", description |-> "d2", priority |-> "high",
       now |-> [sec |-> "05-11-2026 10:00:00", frac |-> "000000002"]],
      [name |-> "A", description |-> "d1", priority |-> "urgent",
       now |-> [sec |-> "05-11-2026 10:00:07", frac |-> "000000000"]] }

\* Names typed at the "Enter new task name" prompt of find / edit / remove
Names == {"a", "A"}

\* Task::new_from_console, all three reads succeeding
new_from_console(inp) ==
    new(inp.name, inp.description,
        CASE inp.priority = "low" -> "Priority::Low"
          [] inp.priority = "medium" -> "Priority::Medium"
          [] inp.priority = "high" -> "Priority::High"
          [] OTHER -> "Priority::Low",
        inp.now)

\* The lines new_from_console prints itself
new_from_console_out(inp) ==
    IF inp.priority \in {"low", "medium", "high"} THEN <<>>
    ELSE << <<"Invalid priority, setting to low.">> >>

NoTask == [name |-> "-", description |-> "-", priority |-> "-",
           add_time |-> [sec |-> "-", frac |-> "-"]]

----------------------------------------------------------------------------
(* Result<String, String> *)

Ok(m) == [ok |-> TRUE, msg |-> m]
Err(m) == [ok |-> FALSE, msg |-> m]

----------------------------------------------------------------------------
(* TasksManager: the in-memory operations *)

\* TasksManager::new
TasksManager_new == <<>>

\* TasksManager::print_tasks
RECURSIVE print_tasks(_)
print_tasks(ts) ==
    IF ts = <<>> THEN <<>>
    ELSE print_task(Head(ts)) \o print_tasks(Tail(ts))

\* add_task with a duplicate-name check: a task whose name is taken is dropped
add_task_unique(ts, task) ==
    IF \E i \in 1..Len(ts) : ts[i].name = task.name THEN ts
    ELSE Append(ts, task)

\* TasksManager::add_task
add_task(ts, task) == Append(ts, task)

\* ASCII lower case of the names in use
Lower(name) == IF name = "A" THEN "a" ELSE name

\* find_task_index comparing the names without regard to case
find_task_index_nocase(ts, name) ==
    IF \E i \in 1..Len(ts) : Lower(ts[i].name) = Lower(name)
    THEN CHOOSE i \in 1..Len(ts) :
            /\ Lower(ts[i].name) = Lower(name)
            /\ \A j \in 1..(i-1) : Lower(ts[j].name) # Lower(name)
    ELSE 0

\* Iterator::position over the names; 0 stands for None, i >= 1 for Some(i-1)
find_task_index(ts, name) ==
    IF \E i \in 1..Len(ts) : ts[i].name = name
    THEN CHOOSE i \in 1..Len(ts) :
            /\ ts[i].name = name
            /\ \A j \in 1..(i-1) : ts[j].name # name
    ELSE 0

\* Vec::swap_remove(index): the last element takes the place of the removed one
Vec_swap_remove(ts, index) ==
    IF index = Len(ts) THEN SubSeq(ts, 1, Len(ts) - 1)
    ELSE SubSeq([ts EXCEPT ![index] = ts[Len(ts)]], 1, Len(ts) - 1)

\* Vec::remove(index): deletes one position and shifts the rest down
Vec_remove(ts, index) ==
    SubSeq(ts, 1, index - 1) \o SubSeq(ts, index + 1, Len(ts))

\* SelectSeq needs a one-argument test: the tasks of ts not named name
RECURSIVE Retain(_, _)
Retain(ts, name) ==
    IF ts = <<>> THEN <<>>
    ELSE IF Head(ts).name = name THEN Retain(Tail(ts), name)
    ELSE <<Head(ts)>> \o Retain(Tail(ts), name)

\* remove_task deleting every task of that name (Vec::retain)
remove_task_retain(ts, name) ==
    IF find_task_index(ts, name) # 0
    THEN [tasks |-> Retain(ts, name),
          res |-> [ok |-> TRUE, msg |-> <<"Task", name, "is removed">>]]
    ELSE [tasks |-> ts,
          res |-> [ok |-> FALSE, msg |-> <<"Task", name, "not found">>]]

\* TasksManager::remove_task
remove_task(ts, name) ==
    LET index == find_task_index(ts, name) IN
    IF index # 0
    THEN [tasks |-> Vec_remove(ts, index),
          res |-> Ok(<<"Task", name, "is removed">>)]
    ELSE [tasks |-> ts, res |-> Err(<<"Task", name, "not found">>)]

\* TasksManager::find_task; NoTask stands for None
find_task(ts, name) ==
    IF \E i \in 1..Len(ts) : ts[i].name = name
    THEN ts[CHOOSE i \in 1..Len(ts) :
               /\ ts[i].name = name
               /\ \A j \in 1..(i-1) : ts[j].name # name]
    ELSE NoTask

\* edit_task leaving out the assignment of add_time
edit_task_keep_time(ts, name, new_task) ==
    LET index == find_task_index(ts, name) IN
    IF index # 0
    THEN [tasks |-> [ts EXCEPT ![index] =
                       [name |-> new_task.name,
                        description |-> new_task.description,
                        priority |-> new_task.priority,
                        add_time |-> ts[index].add_time]],
          res |-> [ok |-> TRUE, msg |-> <<"Task", name, "is removed">>]]
    ELSE [tasks |-> ts,
          res |-> [ok |-> FALSE, msg |-> <<"Task", name, "not found">>]]

\* TasksManager::edit_task
edit_task(ts, name, new_task) ==
    LET index == find_task_index(ts, name) IN
    IF index # 0
    THEN IF index \in 1..Len(ts)
         THEN [tasks |-> [ts EXCEPT ![index] =
                            [name |-> new_task.name,
                             description |-> new_task.description,
                             priority |-> new_task.priority,
                             add_time |-> new_task.add_time]],
               res |-> Ok(<<"Task", name, "is removed">>)]
         ELSE [tasks |-> ts, res |-> Err(<<"Error borrowing task index">>)]
    ELSE [tasks |-> ts, res |-> Err(<<"Task", name, "not found">>)]

----------------------------------------------------------------------------
(* JSON: serde_json over the derived Serialize / Deserialize of Vec<Task> *)

LBracket == <<"[">>
RBracket == <<"]">>
LBrace == <<"{">>
RBrace == <<"}">>
Comma == <<",">>
Colon == <<":">>

\* A JSON string
Str(s) == <<"str", s>>

\* Serialize for Priority: a unit variant is written as its name
Priority_serialize(p) ==
    CASE p = "Priority::Low" -> Str("Low")
      [] p = "Priority::Medium" -> Str("Medium")
      [] p = "Priority::High" -> Str("High")

\* Serialize for DateTime<Local>: one string, seconds, fraction and offset
DateTime_serialize(t) == <<"str", t.sec, ".", t.frac, "+00:00">>

\* Serialize for Task: the fields in declaration order
Task_serialize(t) ==
    << LBrace,
       Str("name"), Colon, Str(t.name), Comma,
       Str("description"), Colon, Str(t.description), Comma,
       Str("priority"), Colon, Priority_serialize(t.priority), Comma,
       Str("add_time"), Colon, DateTime_serialize(t.add_time),
       RBrace >>

RECURSIVE Seq_serialize(_)
Seq_serialize(ts) ==
    IF ts = <<>> THEN <<>>
    ELSE IF Len(ts) = 1 THEN Task_serialize(ts[1])
    ELSE Task_serialize(ts[1]) \o <<Comma>> \o Seq_serialize(Tail(ts))

\* serde_json::to_writer(&file, &self.tasks): everything it writes when no
\* write fails
to_writer(ts) == <<LBracket>> \o Seq_serialize(ts) \o <<RBracket>>

\* Number of tokens of one serialized task
TaskTokens ==
    Len(Task_serialize(new("", "", "Priority::Low", [sec |-> "", frac |-> ""])))

FieldKeys == {Str("name"), Str("description"), Str("priority"), Str("add_time")}

\* Position, inside one object, of the value that follows key k
ValueAt(w, k) == (CHOOSE j \in {2, 6, 10, 14} : w[j] = k) + 2

IsStr(tok) == Len(tok) = 2 /\ tok[1] = "str"

IsPriority(tok) == IsStr(tok) /\ tok[2] \in {"Low", "Medium", "High"}

IsDateTime(tok) ==
    Len(tok) = 5 /\ tok[1] = "str" /\ tok[3] = "." /\ tok[5] = "+00:00"

\* Deserialize for Priority
Priority_deserialize(tok) ==
    CASE tok[2] = "Low" -> "Priority::Low"
      [] tok[2] = "Medium" -> "Priority::Medium"
      [] tok[2] = "High" -> "Priority::High"

\* Deserialize for DateTime<Local>
DateTime_deserialize(tok) == [sec |-> tok[2], frac |-> tok[4]]

\* Does the window w hold one task object: the four keys, each once, in any
\* order, each with a value of its type
IsTask(w) ==
    /\ Len(w) = TaskTokens
    /\ w[1] = LBrace /\ w[TaskTokens] = RBrace
    /\ \A j \in {5, 9, 13} : w[j] = Comma
    /\ \A j \in {3, 7, 11, 15} : w[j] = Colon
    /\ {w[j] : j \in {2, 6, 10, 14}} = FieldKeys
    /\ IsStr(w[ValueAt(w, Str("name"))])
    /\ IsStr(w[ValueAt(w, Str("description"))])
    /\ IsPriority(w[ValueAt(w, Str("priority"))])
    /\ IsDateTime(w[ValueAt(w, Str("add_time"))])

\* Deserialize for Task
Task_deserialize(w) ==
    [name |-> w[ValueAt(w, Str("name"))][2],
     description |-> w[ValueAt(w, Str("description"))][2],
     priority |-> Priority_deserialize(w[ValueAt(w, Str("priority"))]),
     add_time |-> DateTime_deserialize(w[ValueAt(w, Str("add_time"))])]

\* The tokens of the i-th array element
Window(data, i) ==
    SubSeq(data, 2 + (i - 1) * (TaskTokens + 1), i * (TaskTokens + 1))

\* serde_json::from_reader::<_, Vec<Task>>: the whole input is one array of
\* task objects with nothing after it, or the call fails
from_reader(data) ==
    IF data = <<LBracket, RBracket>>
    THEN [ok |-> TRUE, data |-> <<>>]
    ELSE IF /\ Len(data) > TaskTokens + 1
            /\ (Len(data) - 1) % (TaskTokens + 1) = 0
            /\ data[1] = LBracket
            /\ data[Len(data)] = RBracket
            /\ LET n == (Len(data) - 1) \div (TaskTokens + 1) IN
               /\ \A i \in 1..n : IsTask(Window(data, i))
               /\ \A i \in 1..(n - 1) : data[1 + i * (TaskTokens + 1)] = Comma
         THEN [ok |-> TRUE,
               data |-> [i \in 1..((Len(data) - 1) \div (TaskTokens + 1)) |->
                            Task_deserialize(Window(data, i))]]
         ELSE [ok |-> FALSE, data |-> <<>>]

----------------------------------------------------------------------------
(* The file system *)

Paths == {"p"}

Absent == [exists |-> FALSE, data |-> <<>>]

\* Outcomes of File::create followed by the writes of to_writer
StoreIO == {"ok", "create_fail", "write_fail_first", "write_fail_middle"}

\* Outcomes of File::open followed by the reads of from_reader
ReadIO == {"ok", "open_fail", "read_fail"}

\* What reached the file when the writes ended with outcome io
Written(data, io) ==
    CASE io = "ok" -> data
      [] io = "write_fail_first" -> <<>>
      [] io = "write_fail_middle" -> SubSeq(data, 1, Len(data) \div 2)

\* store_to_file without the exists test: File::create truncates what is there
store_to_file_overwrite(ts, fs, file_name, io) ==
    IF io = "create_fail"
    THEN [files |-> fs, res |-> Err(<<"Error creating file:", "io">>)]
    ELSE [files |-> [fs EXCEPT ![file_name] =
                        [exists |-> TRUE, data |-> Written(to_writer(ts), io)]],
          res |-> IF io = "ok" THEN Ok(<<"Success">>)
                  ELSE Err(<<"Error saving data:", "io">>)]

\* TasksManager::store_to_file
store_to_file(ts, fs, file_name, io) ==
    IF ~fs[file_name].exists
    THEN IF io = "create_fail"
         THEN [files |-> fs, res |-> Err(<<"Error creating file:", "io">>)]
         ELSE [files |-> [fs EXCEPT ![file_name] =
                             [exists |-> TRUE,
                              data |-> Written(to_writer(ts), io)]],
               res |-> IF io = "ok" THEN Ok(<<"Success">>)
                       ELSE Err(<<"Error saving data:", "io">>)]
    ELSE [files |-> fs, res |-> Err(<<"File", file_name, "already exists">>)]

\* read_from_file appending what it read to the tasks already there
read_from_file_merge(ts, fs, file_name, io) ==
    IF fs[file_name].exists
    THEN IF io = "open_fail"
         THEN [tasks |-> ts, res |-> Err(<<"Error creating file:", "io">>)]
         ELSE IF io = "read_fail"
         THEN [tasks |-> ts, res |-> Err(<<"Error reading data:", "io">>)]
         ELSE IF from_reader(fs[file_name].data).ok
              THEN [tasks |-> ts \o from_reader(fs[file_name].data).data,
                    res |-> Ok(<<"Data read successfully">>)]
              ELSE [tasks |-> ts,
                    res |-> Err(<<"Error reading data:", "syntax">>)]
    ELSE [tasks |-> ts, res |-> Err(<<"File", file_name, "does not exists">>)]

\* read_from_file emptying the tasks before it parses
read_from_file_clear(ts, fs, file_name, io) ==
    IF fs[file_name].exists
    THEN IF io = "open_fail"
         THEN [tasks |-> ts, res |-> Err(<<"Error creating file:", "io">>)]
         ELSE IF io = "read_fail"
         THEN [tasks |-> <<>>, res |-> Err(<<"Error reading data:", "io">>)]
         ELSE IF from_reader(fs[file_name].data).ok
              THEN [tasks |-> from_reader(fs[file_name].data).data,
                    res |-> Ok(<<"Data read successfully">>)]
              ELSE [tasks |-> <<>>,
                    res |-> Err(<<"Error reading data:", "syntax">>)]
    ELSE [tasks |-> ts, res |-> Err(<<"File", file_name, "does not exists">>)]

\* TasksManager::read_from_file
read_from_file(ts, fs, file_name, io) ==
    IF fs[file_name].exists
    THEN IF io = "open_fail"
         THEN [tasks |-> ts, res |-> Err(<<"Error creating file:", "io">>)]
         ELSE IF io = "read_fail"
         THEN [tasks |-> ts, res |-> Err(<<"Error reading data:", "io">>)]
         ELSE LET parsed == from_reader(fs[file_name].data) IN
              IF parsed.ok
              THEN [tasks |-> parsed.data,
                    res |-> Ok(<<"Data read successfully">>)]
              ELSE [tasks |-> ts,
                    res |-> Err(<<"Error reading data:", "syntax">>)]
    ELSE [tasks |-> ts, res |-> Err(<<"File", file_name, "does not exists">>)]

\* Files that may already be at the path when the program starts: not JSON, a well-formed
\* array whose priority tag is not a variant name, and a well-formed array
\* of one task with its keys in another order.
Foreign ==
    { << <<"garbage">> >>,
      << LBracket, LBrace,
         Str("name"), Colon, Str("a"), Comma,
         Str("description"), Colon, Str("d1"), Comma,
         Str("priority"), Colon, Str("low"), Comma,
         Str("add_time"), Colon,
         <<"str", "05-11-2026 10:00:00", ".", "000000001", "+00:00">>,
         RBrace, RBracket >>,
      << LBracket, LBrace,
         Str("priority"), Colon, Str("Medium"), Comma,
         Str("add_time"), Colon,
         <<"str", "05-11-2026 10:00:00", ".", "000000002", "+00:00">>, Comma,
         Str("name"), Colon, Str("a"), Comma,
         Str("description"), Colon, Str("d2"),
         RBrace, RBracket >> }

----------------------------------------------------------------------------
(* ConsoleManager: main's loop runs process_command over and over *)

Call(op, name, file, task, io) ==
    [op |-> op, name |-> name, file |-> file, task |-> task, io |-> io]

InputError == <<"Error getting user input:", "io">>

\* The history variables follow the command that ran
History(op, task, file, stored) ==
    /\ onlyAdds' = (onlyAdds /\ op \in {"add", "print"})
    /\ added' = IF onlyAdds /\ op \in {"add", "print"}
                THEN (IF op = "add" THEN Append(added, task) ELSE added)
                ELSE <<>>
    /\ saved' = IF stored
                THEN [saved EXCEPT ![file] = [set |-> TRUE, tasks |-> tasks]]
                ELSE saved

NotSaved == [set |-> FALSE, tasks |-> <<>>]

\* ConsoleManager::new, print_menu, and the state main's loop starts in
Init ==
    /\ tasks = TasksManager_new
    /\ \/ files = [f \in Paths |-> Absent]
       \/ \E d \in Foreign :
             files = [f \in Paths |-> [exists |-> TRUE, data |-> d]]
    /\ status = "running"
    /\ out = <<>>
    /\ last = Call("-", "-", "-", NoTask, "-")
    /\ added = <<>>
    /\ onlyAdds = TRUE
    /\ saved = [f \in Paths |-> NotSaved]

\* input("Enter command index") returns Err
CmdInputFail ==
    /\ status = "running"
    /\ out' = <<InputError>>
    /\ last' = Call("command", "-", "-", NoTask, "input_fail")
    /\ History("command", NoTask, "-", FALSE)
    /\ UNCHANGED <<tasks, files, status>>

\* "1": add_task(Task::new_from_console())
CmdAdd(inp) ==
    /\ status = "running"
    /\ Len(tasks) < MaxTasks
    /\ tasks' = add_task(tasks, new_from_console(inp))
    /\ out' = new_from_console_out(inp)
    /\ last' = Call("add", "-", "-", new_from_console(inp), "ok")
    /\ History("add", new_from_console(inp), "-", FALSE)
    /\ UNCHANGED <<files, status>>

\* "1", one of the three input(..).unwrap() of new_from_console gets an Err:
\* the panic unwinds main
CmdAddPanic ==
    /\ status = "running"
    /\ status' = "panicked"
    /\ out' = << <<"thread main panicked", "Result::unwrap on an Err value">> >>
    /\ last' = Call("add", "-", "-", NoTask, "input_fail")
    /\ History("add_failed", NoTask, "-", FALSE)
    /\ UNCHANGED <<tasks, files>>

\* "2": find_task
CmdFind(name) ==
    /\ status = "running"
    /\ out' = IF find_task(tasks, name) = NoTask
              THEN << <<"Task", name, "not found">> >>
              ELSE << <<"Task found.">> >> \o print_task(find_task(tasks, name))
    /\ last' = Call("find", name, "-", NoTask, "ok")
    /\ History("find", NoTask, "-", FALSE)
    /\ UNCHANGED <<tasks, files, status>>

\* "2", "3", "4", "6", "7": the input of the name or file name returns Err
CmdPromptFail(op) ==
    /\ status = "running"
    /\ out' = <<InputError>>
    /\ last' = Call(op, "-", "-", NoTask, "input_fail")
    /\ History("prompt_failed", NoTask, "-", FALSE)
    /\ UNCHANGED <<tasks, files, status>>

\* "3": edit_task(&name, Task::new_from_console())
CmdEdit(name, inp) ==
    /\ status = "running"
    /\ tasks' = edit_task(tasks, name, new_from_console(inp)).tasks
    /\ out' = new_from_console_out(inp)
                \o <<edit_task(tasks, name, new_from_console(inp)).res.msg>>
    /\ last' = Call("edit", name, "-", new_from_console(inp), "ok")
    /\ History("edit", NoTask, "-", FALSE)
    /\ UNCHANGED <<files, status>>

\* "3", the name is read, then an input(..).unwrap() of new_from_console
\* gets an Err
CmdEditPanic(name) ==
    /\ status = "running"
    /\ status' = "panicked"
    /\ out' = << <<"thread main panicked", "Result::unwrap on an Err value">> >>
    /\ last' = Call("edit", name, "-", NoTask, "input_fail")
    /\ History("edit_failed", NoTask, "-", FALSE)
    /\ UNCHANGED <<tasks, files>>

\* "4": remove_task
CmdRemove(name) ==
    /\ status = "running"
    /\ tasks' = remove_task(tasks, name).tasks
    /\ out' = <<remove_task(tasks, name).res.msg>>
    /\ last' = Call("remove", name, "-", NoTask, "ok")
    /\ History("remove", NoTask, "-", FALSE)
    /\ UNCHANGED <<files, status>>

\* "5": print_tasks
CmdPrint ==
    /\ status = "running"
    /\ out' = print_tasks(tasks)
    /\ last' = Call("print", "-", "-", NoTask, "ok")
    /\ History("print", NoTask, "-", FALSE)
    /\ UNCHANGED <<tasks, files, status>>

\* "6": store_to_file
CmdStore(file_name, io) ==
    /\ status = "running"
    /\ Len(tasks) <= MaxStored
    /\ files' = store_to_file(tasks, files, file_name, io).files
    /\ out' = <<store_to_file(tasks, files, file_name, io).res.msg>>
    /\ last' = Call("store", "-", file_name, NoTask,
                    IF files[file_name].exists THEN "-" ELSE io)
    /\ History("store", NoTask, file_name,
               store_to_file(tasks, files, file_name, io).res.ok)
    /\ UNCHANGED <<tasks, status>>

\* "7": read_from_file
CmdRead(file_name, io) ==
    /\ status = "running"
    /\ tasks' = read_from_file(tasks, files, file_name, io).tasks
    /\ out' = <<read_from_file(tasks, files, file_name, io).res.msg>>
    /\ last' = Call("read", "-", file_name, NoTask,
                    IF files[file_name].exists THEN io ELSE "-")
    /\ History("read", NoTask, file_name, FALSE)
    /\ UNCHANGED <<files, status>>

\* Any other command text
CmdInvalid ==
    /\ status = "running"
    /\ out' = << <<"Invalid command">> >>
    /\ last' = Call("invalid", "-", "-", NoTask, "ok")
    /\ History("invalid", NoTask, "-", FALSE)
    /\ UNCHANGED <<tasks, files, status>>

Next ==
    \/ CmdInputFail
    \/ \E inp \in ConsoleInputs : CmdAdd(inp)
    \/ CmdAddPanic
    \/ \E name \in Names : CmdFind(name)
    \/ \E op \in {"find", "edit", "remove", "store", "read"} : CmdPromptFail(op)
    \/ \E name \in Names, inp \in ConsoleInputs : CmdEdit(name, inp)
    \/ \E name \in Names : CmdEditPanic(name)
    \/ \E name \in Names : CmdRemove(name)
    \/ CmdPrint
    \/ \E file_name \in Paths, io \in StoreIO : CmdStore(file_name, io)
    \/ \E file_name \in Paths, io \in ReadIO : CmdRead(file_name, io)
    \/ CmdInvalid

Spec == Init /\ [][Next]_vars

----------------------------------------------------------------------------
(* Vocabulary of the properties *)

\* Positions of ts whose task is named name
Matches(ts, name) == {i \in 1..Len(ts) : ts[i].name = name}

Min(S) == CHOOSE x \in S : \A y \in S : x <= y

\* ts with position i deleted
Without(ts, i) ==
    [k \in 1..(Len(ts) - 1) |-> IF k < i THEN ts[k] ELSE ts[k + 1]]

NotFoundLine(name) == <<"Task", name, "not found">>
DoneLine(name) == <<"Task", name, "is removed">>

\* The step just taken ran command op to its end
Ran(op) == last'.op = op /\ last'.io = "ok"

----------------------------------------------------------------------------
(* C1 *)

\* C1: add appends unconditionally: every add step makes the sequence one
\* longer, puts the added task last and keeps every earlier entry at its
\* position, also when the name is already present; and as long as only adds
\* have run, print_tasks shows exactly the added tasks in the order added.
C1_AddAppendsInOrder ==
    [][ /\ Ran("add") =>
            /\ Len(tasks') = Len(tasks) + 1
            /\ tasks'[Len(tasks')] = last'.task
            /\ \A i \in 1..Len(tasks) : tasks'[i] = tasks[i]
        /\ (Ran("print") /\ onlyAdds') =>
            /\ Len(out') = 2 * Len(added')
            /\ \A i \in 1..Len(added') :
                  <<out'[2 * i - 1], out'[2 * i]>> = print_task(added'[i])
      ]_vars

\* Three adds, two of them of the same name, then a listing
C1_Witness ==
    /\ onlyAdds /\ last.op = "print"
    /\ Len(added) = 3 /\ Len(out) = 6
    /\ added[1].name = added[2].name

----------------------------------------------------------------------------
(* C2 *)

RemoveSucceeded == last.op = "remove" /\ out = <<DoneLine(last.name)>>

\* C2 as stated: a find of the name right after a successful remove of it
\* prints not-found, whatever the repository held.
C2_RemoveThenFindNotFound ==
    [][ (RemoveSucceeded /\ Ran("find") /\ last'.name = last.name)
            => out' = <<NotFoundLine(last.name)>> ]_vars

\* C2 amended: after a successful remove(name) no task of that name is left
\* exactly when one task carried the name before; a find(name) that follows
\* prints not-found exactly when none is left, and otherwise prints the
\* first task of that name that is left.
C2_RemoveThenFind ==
    [][ /\ (Ran("remove") /\ Matches(tasks, last'.name) # {}) =>
            /\ (Matches(tasks', last'.name) = {})
                  <=> (Cardinality(Matches(tasks, last'.name)) = 1)
            /\ Cardinality(Matches(tasks, last'.name)) > 1 =>
                  tasks'[Min(Matches(tasks', last'.name))] =
                     tasks[Min(Matches(tasks, last'.name) \
                                 {Min(Matches(tasks, last'.name))})]
        /\ (RemoveSucceeded /\ Ran("find") /\ last'.name = last.name) =>
            IF Matches(tasks, last.name) = {}
            THEN out' = <<NotFoundLine(last.name)>>
            ELSE out' = << <<"Task found.">> >>
                          \o print_task(tasks[Min(Matches(tasks, last.name))])
      ]_vars

\* A successful remove after which tasks remain but none of that name
C2_Witness ==
    /\ RemoveSucceeded
    /\ Len(tasks) = 2
    /\ Matches(tasks, last.name) = {}

----------------------------------------------------------------------------
(* C3 *)

\* C3: edit(name, replacement) on a repository holding a task named name
\* reports success, keeps the length, makes the first entry of that name
\* equal to the replacement in all four fields and keeps every other entry.
C3_EditReplacesFirstMatch ==
    [][ (Ran("edit") /\ Matches(tasks, last'.name) # {}) =>
            /\ out'[Len(out')] = DoneLine(last'.name)
            /\ Len(tasks') = Len(tasks)
            /\ \A i \in 1..Len(tasks) :
                  tasks'[i] = IF i = Min(Matches(tasks, last'.name))
                              THEN last'.task ELSE tasks[i]
      ]_vars

\* An edit that renamed the first of three tasks to the name of another one
C3_Witness ==
    /\ last.op = "edit" /\ last.io = "ok"
    /\ out[Len(out)] = DoneLine(last.name)
    /\ Len(tasks) = 3
    /\ tasks[1] = last.task
    /\ last.task.name # last.name
    /\ \E j \in 2..3 : tasks[j].name = last.task.name
    /\ \E j \in 2..3 : tasks[j].name = last.name

----------------------------------------------------------------------------
(* C4 *)

ReadLine == <<"Data read successfully">>

\* C4: once a store to a path has succeeded with task sequence S, a read of
\* that path which meets no I/O fault succeeds on any repository and leaves
\* the task sequence equal to S, whatever it held before.
C4_StoreThenRead ==
    [][ (Ran("read") /\ saved[last'.file].set) =>
            /\ out' = <<ReadLine>>
            /\ tasks' = saved[last'.file].tasks
      ]_vars

\* A read that brought back two stored tasks created within the same second
C4_Witness ==
    /\ last.op = "read" /\ out = <<ReadLine>>
    /\ saved[last.file].set
    /\ Len(tasks) = 2
    /\ tasks[1].add_time.sec = tasks[2].add_time.sec
    /\ tasks[1].add_time # tasks[2].add_time

----------------------------------------------------------------------------
(* C5 *)

ExistsLine(f) == <<"File", f, "already exists">>

\* C5: a store to a path where a file exists reports file-exists and changes
\* neither the file nor the task sequence; and what a successful store wrote
\* stays in the file from then on.
C5_StoreNeverOverwrites ==
    [][ /\ (last'.op = "store" /\ last'.file \in Paths
              /\ files[last'.file].exists) =>
            /\ out' = <<ExistsLine(last'.file)>>
            /\ files' = files
            /\ tasks' = tasks
        /\ \A f \in Paths : saved[f].set =>
            /\ files[f].exists
            /\ files'[f] = files[f]
      ]_vars

\* A second store to a path stored before, with other tasks in memory
C5_Witness ==
    /\ last.op = "store"
    /\ out = <<ExistsLine(last.file)>>
    /\ saved[last.file].set
    /\ saved[last.file].tasks # tasks

----------------------------------------------------------------------------
(* C6 *)

MissingLine(f) == <<"File", f, "does not exists">>

\* C6: a read that does not succeed leaves the task sequence as it was; it
\* reports file-missing when no file is at the path, and an open or a
\* read/parse error when one is.
C6_FailedReadKeepsTasks ==
    [][ (last'.op = "read" /\ last'.file \in Paths /\ out' # <<ReadLine>>) =>
            /\ tasks' = tasks
            /\ ~files[last'.file].exists => out' = <<MissingLine(last'.file)>>
            /\ files[last'.file].exists =>
                  /\ Len(out') = 1
                  /\ out'[1][1] \in {"Error creating file:", "Error reading data:"}
      ]_vars

\* A read of a cut-off array that failed to parse, with tasks in memory
C6_Witness ==
    /\ last.op = "read"
    /\ out = << <<"Error reading data:", "syntax">> >>
    /\ tasks # <<>>
    /\ Len(files[last.file].data) > 1
    /\ files[last.file].data[1] = LBracket

----------------------------------------------------------------------------
(* C7 *)

\* C7: after a store that reported an error, the call either created no
\* file or the file holds the complete serialized task sequence.
C7_FailedStoreLeavesNoPartialFile ==
    (last.op = "store" /\ last.file \in Paths /\ out # << <<"Success">> >>) =>
        \/ out = <<ExistsLine(last.file)>>
        \/ out = << <<"Error creating file:", "io">> >>
        \/ files[last.file].data = to_writer(tasks)

----------------------------------------------------------------------------
(* C8 *)

\* C8: whatever a command's outcome, main's loop is still running after it.
C8_LoopAlwaysContinues == status = "running"

----------------------------------------------------------------------------
(* C9 *)

\* C9: edit and remove with a name no task carries (exact comparison) report
\* task-not-found and leave the task sequence as it was.
C9_NotFoundKeepsTasks ==
    [][ (last'.op \in {"edit", "remove"} /\ last'.io = "ok"
           /\ Matches(tasks, last'.name) = {}) =>
            /\ out'[Len(out')] = NotFoundLine(last'.name)
            /\ tasks' = tasks
      ]_vars

\* A remove that found nothing although a task's name differs only in case
C9_Witness ==
    /\ last.op = "remove"
    /\ out = <<NotFoundLine(last.name)>>
    /\ tasks # <<>>
    /\ \A i \in 1..Len(tasks) : tasks[i].name # last.name
    /\ \E i \in 1..Len(tasks) : Lower(tasks[i].name) = Lower(last.name)

----------------------------------------------------------------------------
(* C10 *)

\* C10: a successful remove(name) deletes the entry at the lowest position
\* of that name and nothing else: the result is the previous sequence with
\* that one position deleted.
C10_RemoveDeletesFirstMatch ==
    [][ (Ran("remove") /\ Matches(tasks, last'.name) # {}) =>
            /\ out' = <<DoneLine(last'.name)>>
            /\ tasks' = Without(tasks, Min(Matches(tasks, last'.name)))
      ]_vars

\* A successful remove that left two tasks, one of them of the removed name
C10_Witness ==
    /\ RemoveSucceeded
    /\ Len(tasks) = 2
    /\ tasks[1].name # tasks[2].name
    /\ Matches(tasks, last.name) # {}

====
